---- MODULE Spec2Model ----
(***************************************************************************)
(* Model of the risk-managed execution core of weather-hunters:            *)
(*   - RiskManager (src/src/risk/risk_manager.py): kill-switch state       *)
(*     machine, fractional-Kelly position sizer, exposure tracking;        *)
(*   - FeeSchedule / Position (src/src/backtest/event_backtester.py):      *)
(*     profit-only fee and settlement P&L.                                 *)
(*                                                                         *)
(* Units.  Money is counted in cents (integers); a float amount of the     *)
(* code is an exact rational <<n, d>> here (d > 0, lowest terms).          *)
(* Percent fields of RiskLimits (0.05 = 5%) are integers in percent.       *)
(* Time is counted in hours since midnight of day 0.                       *)
(***************************************************************************)
EXTENDS Integers, Sequences, FiniteSets, TLC

(***************************************************************************)
(* Exact rational arithmetic standing in for Python floats.                *)
(***************************************************************************)
RECURSIVE Gcd(_, _)
Gcd(a, b) == IF b = 0 THEN a ELSE Gcd(b, a % b)

Abs(x) == IF x < 0 THEN -x ELSE x

Norm(n, d) ==
    LET g == Gcd(Abs(n), d)
    IN  IF n = 0 THEN <<0, 1>> ELSE <<n \div g, d \div g>>

R(x) == <<x, 1>>
RMul(a, b) == Norm(a[1] * b[1], a[2] * b[2])
RDiv(a, b) == IF b[1] > 0 THEN Norm(a[1] * b[2], a[2] * b[1])
                          ELSE Norm(-(a[1] * b[2]), a[2] * (-b[1]))
RAdd(a, b) == Norm(a[1] * b[2] + b[1] * a[2], a[2] * b[2])
RSub(a, b) == Norm(a[1] * b[2] - b[1] * a[2], a[2] * b[2])
RNeg(a) == <<-a[1], a[2]>>
RLt(a, b) == a[1] * b[2] < b[1] * a[2]
RLe(a, b) == a[1] * b[2] <= b[1] * a[2]
RMax(a, b) == IF RLt(a, b) THEN b ELSE a
RMin(a, b) == IF RLt(b, a) THEN b ELSE a
\* mutant: rounds up instead of truncating
RTrunc_Mut(a) == -((-a[1]) \div a[2])

\* Python int(): truncation toward zero
RTrunc(a) == IF a[1] >= 0 THEN a[1] \div a[2] ELSE -((-a[1]) \div a[2])
Pct(p) == <<p, 100>>

(***************************************************************************)
(* RiskManager: configuration.                                             *)
(***************************************************************************)
\* TradingState and KillSwitchReason values
ACTIVE == "active"
THROTTLED == "throttled"
PAUSED == "paused"
HALTED == "halted"
DAILY_LOSS_LIMIT == "daily_loss_limit"
SLIPPAGE_EXCESSIVE == "slippage_excessive"
ERROR_BURST == "error_burst"
NO_FILLS == "no_fills"
None == "none"
NoTime == -1

\* mutant: the single-position cap is 10% instead of 5%
RiskLimits_Mut ==
    [max_total_exposure_pct |-> 20, max_single_position_pct |-> 10,
     max_correlated_group_pct |-> 15,
     kelly_fraction |-> 25, min_kelly_bet |-> 1, max_kelly_bet |-> 10,
     max_daily_loss_dollars |-> 50000, max_daily_loss_pct |-> 5,
     max_daily_trades |-> 50,
     max_consecutive_losses |-> 5, loss_streak_pause_hours |-> 4,
     max_slippage_bps |-> 50, min_edge_to_trade |-> 3,
     max_error_rate_per_hour |-> 10,
     min_fills_per_scan |-> 1, min_fills_lookback_scans |-> 20]

\* RiskLimits with its default field values (dollars in cents, ratios in percent)
RiskLimits ==
    [max_total_exposure_pct |-> 20, max_single_position_pct |-> 5,
     max_correlated_group_pct |-> 15,
     kelly_fraction |-> 25, min_kelly_bet |-> 1, max_kelly_bet |-> 10,
     max_daily_loss_dollars |-> 50000, max_daily_loss_pct |-> 5,
     max_daily_trades |-> 50,
     max_consecutive_losses |-> 5, loss_streak_pause_hours |-> 4,
     max_slippage_bps |-> 50, min_edge_to_trade |-> 3,
     max_error_rate_per_hour |-> 10,
     min_fills_per_scan |-> 1, min_fills_lookback_scans |-> 20]

\* program constants of RiskManager
SlippageMaxLen == 100
ErrorsMaxLen == 100
EdgeWindowMaxLen == 50
EdgeWindowMin == 20
ErrorBurstMinSamples == 5
SlippagePatternPct == 30
HoursPerDay == 24

(***************************************************************************)
(* RiskManager: state.                                                     *)
(***************************************************************************)
VARIABLES
    limits,               \* self.limits
    current_capital,      \* self.current_capital (cents)
    trading_state,        \* self.trading_state
    kill_switch_reason,   \* self.kill_switch_reason
    positions,            \* self.positions: ticker -> Position
    market_groups,        \* self.market_groups: group id -> set of tickers
    daily_pnl,            \* self.daily_pnl (cents)
    daily_trades,         \* self.daily_trades
    daily_reset_time,     \* self.daily_reset_time (hour of that midnight)
    consecutive_losses,   \* self.consecutive_losses
    last_loss_time,       \* self.last_loss_time (hour, or None)
    recent_slippage,      \* self.recent_slippage (bps samples)
    recent_errors,        \* self.recent_errors (timestamps)
    recent_fills,         \* self.recent_fills (booleans)
    realized_edge_window, \* self.realized_edge_window (ROI rationals)
    now,                  \* datetime.now(), in hours
    result                \* the last call and what it returned

rmvars == <<limits, current_capital, trading_state, kill_switch_reason, positions,
            market_groups, daily_pnl, daily_trades, daily_reset_time,
            consecutive_losses, last_loss_time, recent_slippage, recent_errors,
            recent_fills, realized_edge_window, now, result>>

(***************************************************************************)
(* RiskManager: helpers.                                                   *)
(***************************************************************************)
Date(t) == t \div HoursPerDay
Midnight(t) == Date(t) * HoursPerDay

\* deque(maxlen=n).append(x)
DequeAppend(q, x, n) ==
    IF n = 0 THEN q
    ELSE IF Len(q) >= n THEN Append(Tail(q), x) ELSE Append(q, x)

RECURSIVE SumSeq(_)
SumSeq(q) == IF q = <<>> THEN 0 ELSE Head(q) + SumSeq(Tail(q))

RECURSIVE RSumSeq(_)
RSumSeq(q) == IF q = <<>> THEN R(0) ELSE RAdd(Head(q), RSumSeq(Tail(q)))

RECURSIVE SumOver(_, _)
SumOver(S, f) ==
    IF S = {} THEN 0
    ELSE LET x == CHOOSE y \in S : TRUE IN f[x] + SumOver(S \ {x}, f)

\* (entry_price_cents / 100.0) * contracts, in cents
PositionCost(pos) == pos.entry_price_cents * pos.contracts

_get_total_exposure ==
    SumOver(DOMAIN positions, [t \in DOMAIN positions |-> PositionCost(positions[t])])

_get_group_exposure(group_id) ==
    IF group_id \notin DOMAIN market_groups THEN 0
    ELSE LET members == DOMAIN positions \cap market_groups[group_id]
         IN  SumOver(members, [t \in members |-> PositionCost(positions[t])])

\* mutant: the reset also fires on the day of the last reset
ResetDue_Mut == Date(now) >= Date(daily_reset_time)

\* the day has changed since daily_reset_time
ResetDue == Date(now) > Date(daily_reset_time)

ErrorsInLastHour == Cardinality({i \in 1..Len(recent_errors) : recent_errors[i] >= now - 1})

_check_error_burst ==
    IF Len(recent_errors) < ErrorBurstMinSamples THEN FALSE
    ELSE ErrorsInLastHour >= limits.max_error_rate_per_hour

FillCount == Cardinality({i \in 1..Len(recent_fills) : recent_fills[i]})

_check_no_fills ==
    IF Len(recent_fills) < limits.min_fills_lookback_scans THEN FALSE
    ELSE FillCount < limits.min_fills_per_scan

\* abs(daily_pnl) >= max_daily_loss_dollars, on the given daily_pnl
DailyDollarBreach(pnl) == Abs(pnl) >= limits.max_daily_loss_dollars

\* abs(daily_pnl) / current_capital >= max_daily_loss_pct (current_capital # 0)
DailyPctBreach(pnl) ==
    IF current_capital > 0
    THEN Abs(pnl) * 100 >= limits.max_daily_loss_pct * current_capital
    ELSE Abs(pnl) * 100 <= limits.max_daily_loss_pct * current_capital

\* mutant: the pause lasts one hour too long
PauseRunning_Mut == now - last_loss_time <= limits.loss_streak_pause_hours

\* the pause has not yet run for loss_streak_pause_hours
PauseRunning == now - last_loss_time < limits.loss_streak_pause_hours

(***************************************************************************)
(* RiskManager.can_trade: the values it returns and the fields it leaves   *)
(* behind.  raised = TRUE stands for the ZeroDivisionError of              *)
(* abs(daily_pnl) / current_capital when current_capital is 0; the         *)
(* assignments made before the division are kept.                          *)
(***************************************************************************)
can_trade ==
    LET reset == ResetDue
        dp  == IF reset THEN 0 ELSE daily_pnl
        dt  == IF reset THEN 0 ELSE daily_trades
        drt == IF reset THEN Midnight(now) ELSE daily_reset_time
        out(allowed, reason, raised, st, ksr, cl) ==
            [allowed |-> allowed, reason |-> reason, raised |-> raised,
             trading_state |-> st, kill_switch_reason |-> ksr,
             consecutive_losses |-> cl,
             daily_pnl |-> dp, daily_trades |-> dt, daily_reset_time |-> drt]
        paused == trading_state = PAUSED /\ last_loss_time # NoTime
        \* state and streak after the pause check
        st == IF paused THEN ACTIVE ELSE trading_state
        cl == IF paused THEN 0 ELSE consecutive_losses
    IN  IF trading_state = HALTED
        THEN out(FALSE, "halted", FALSE, trading_state, kill_switch_reason,
                 consecutive_losses)
        ELSE IF paused /\ PauseRunning
        THEN out(FALSE, "loss_streak", FALSE, trading_state, kill_switch_reason,
                 consecutive_losses)
        ELSE IF DailyDollarBreach(dp)
        THEN out(FALSE, "daily_loss", FALSE, HALTED, DAILY_LOSS_LIMIT, cl)
        ELSE IF current_capital = 0
        THEN out(FALSE, "ZeroDivisionError", TRUE, st, kill_switch_reason, cl)
        ELSE IF DailyPctBreach(dp)
        THEN out(FALSE, "daily_loss_pct", FALSE, HALTED, DAILY_LOSS_LIMIT, cl)
        ELSE IF dt >= limits.max_daily_trades
        THEN out(FALSE, "daily_trades", FALSE, st, kill_switch_reason, cl)
        ELSE IF _check_error_burst
        THEN out(FALSE, "error_burst", FALSE, HALTED, ERROR_BURST, cl)
        ELSE IF _check_no_fills
        THEN out(FALSE, "no_fills", FALSE, HALTED, NO_FILLS, cl)
        ELSE IF st = THROTTLED
        THEN out(FALSE, "throttled", FALSE, st, kill_switch_reason, cl)
        ELSE out(TRUE, None, FALSE, st, kill_switch_reason, cl)

\* the assignments can_trade makes to the object
ApplyGate(g) ==
    /\ trading_state' = g.trading_state
    /\ kill_switch_reason' = g.kill_switch_reason
    /\ consecutive_losses' = g.consecutive_losses
    /\ daily_pnl' = g.daily_pnl
    /\ daily_trades' = g.daily_trades
    /\ daily_reset_time' = g.daily_reset_time

\* the arguments of the call and position_size_dollars as the sizer left it
NoArgs == [edge |-> 0, win_probability |-> 0, price_cents |-> 0,
           market_group |-> None, size |-> R(0)]

Returned(op, allowed, contracts, reason, raised, args) ==
    [op |-> op, allowed |-> allowed, contracts |-> contracts, reason |-> reason,
     raised |-> raised, args |-> args]

\* a method that returns nothing has returned
Void == Returned("void", FALSE, 0, None, FALSE, NoArgs)

(***************************************************************************)
(* RiskManager.calculate_position_size, after its can_trade() call said    *)
(* yes: the checks and clamps of lines 265-319.  edge and win_probability  *)
(* are in percent.                                                         *)
(***************************************************************************)
SizeOf(edge, win_probability, price_cents, market_group) ==
    LET cap == R(current_capital)
        p == Pct(win_probability)
        odds == RDiv(R(100 - price_cents), R(price_cents))
        kelly == RDiv(RSub(RMul(p, odds), RSub(R(1), p)), odds)
        fractional_kelly == RMul(kelly, Pct(limits.kelly_fraction))
        size0 == RMul(cap, fractional_kelly)
        min_size == RMul(cap, Pct(limits.min_kelly_bet))
        max_size == RMul(cap, Pct(limits.max_kelly_bet))
        size1 == RMax(min_size, RMin(max_size, size0))
        max_single_position == RMul(cap, Pct(limits.max_single_position_pct))
        size2 == IF RLt(max_single_position, size1) THEN max_single_position ELSE size1
        grouped == market_group # None /\ market_group \in DOMAIN market_groups
        group_exposure == R(_get_group_exposure(market_group))
        max_group_exposure == RMul(cap, Pct(limits.max_correlated_group_pct))
        group_over == grouped /\ RLt(max_group_exposure, RAdd(group_exposure, size2))
        size3 == IF group_over
                 THEN RMax(R(0), RSub(max_group_exposure, group_exposure))
                 ELSE size2
        total_exposure == R(_get_total_exposure)
        max_total_exposure == RMul(cap, Pct(limits.max_total_exposure_pct))
        total_over == RLt(max_total_exposure, RAdd(total_exposure, size3))
        size4 == IF total_over
                 THEN RMax(R(0), RSub(max_total_exposure, total_exposure))
                 ELSE size3
        contracts == RTrunc(RDiv(size4, R(price_cents)))
    IN  IF group_over /\ size3 = R(0)
        THEN [contracts |-> 0, reason |-> "group_limit", size |-> size3]
        ELSE IF total_over /\ size4 = R(0)
        THEN [contracts |-> 0, reason |-> "total_limit", size |-> size4]
        ELSE IF contracts < 1
        THEN [contracts |-> 0, reason |-> "too_small", size |-> size4]
        ELSE [contracts |-> contracts, reason |-> "OK", size |-> size4]

\* mutant: the price is checked before the edge
calculate_position_size_Mut(g, edge, win_probability, price_cents, market_group) ==
    IF g.raised
    THEN [contracts |-> 0, reason |-> g.reason, raised |-> TRUE, size |-> R(0)]
    ELSE IF ~g.allowed
    THEN [contracts |-> 0, reason |-> g.reason, raised |-> FALSE, size |-> R(0)]
    ELSE IF price_cents <= 0 \/ price_cents >= 100
    THEN [contracts |-> 0, reason |-> "invalid_price", raised |-> FALSE,
          size |-> R(0)]
    ELSE IF edge < limits.min_edge_to_trade
    THEN [contracts |-> 0, reason |-> "edge_too_small", raised |-> FALSE,
          size |-> R(0)]
    ELSE LET s == SizeOf(edge, win_probability, price_cents, market_group)
         IN  [contracts |-> s.contracts, reason |-> s.reason, raised |-> FALSE,
              size |-> s.size]

calculate_position_size(g, edge, win_probability, price_cents, market_group) ==
    IF g.raised
    THEN [contracts |-> 0, reason |-> g.reason, raised |-> TRUE, size |-> R(0)]
    ELSE IF ~g.allowed
    THEN [contracts |-> 0, reason |-> g.reason, raised |-> FALSE, size |-> R(0)]
    ELSE IF edge < limits.min_edge_to_trade
    THEN [contracts |-> 0, reason |-> "edge_too_small", raised |-> FALSE,
          size |-> R(0)]
    ELSE IF price_cents <= 0 \/ price_cents >= 100
    THEN [contracts |-> 0, reason |-> "invalid_price", raised |-> FALSE,
          size |-> R(0)]
    ELSE LET s == SizeOf(edge, win_probability, price_cents, market_group)
         IN  [contracts |-> s.contracts, reason |-> s.reason, raised |-> FALSE,
              size |-> s.size]

(***************************************************************************)
(* RiskManager: operations.                                                *)
(***************************************************************************)
\* RiskManager.__init__(initial_capital, limits) at time t0
RMInit(initial_capital, lim, t0) ==
    /\ limits = lim
    /\ current_capital = initial_capital
    /\ trading_state = ACTIVE
    /\ kill_switch_reason = None
    /\ positions = <<>>
    /\ market_groups = <<>>
    /\ daily_pnl = 0
    /\ daily_trades = 0
    /\ daily_reset_time = Midnight(t0)
    /\ consecutive_losses = 0
    /\ last_loss_time = NoTime
    /\ recent_slippage = <<>>
    /\ recent_errors = <<>>
    /\ recent_fills = <<>>
    /\ realized_edge_window = <<>>
    /\ now = t0
    /\ result = Void

\* the wall clock moves on by d hours
Tick(d) ==
    /\ now' = now + d
    /\ result' = Void
    /\ UNCHANGED <<limits, current_capital, trading_state, kill_switch_reason,
                   positions, market_groups, daily_pnl, daily_trades,
                   daily_reset_time, consecutive_losses, last_loss_time,
                   recent_slippage, recent_errors, recent_fills,
                   realized_edge_window>>

CanTrade ==
    LET g == can_trade
    IN  /\ ApplyGate(g)
        /\ result' = Returned("can_trade", g.allowed, 0, g.reason, g.raised, NoArgs)
        /\ UNCHANGED <<limits, current_capital, positions, market_groups,
                       last_loss_time, recent_slippage, recent_errors, recent_fills,
                       realized_edge_window, now>>

CalculatePositionSize(edge, win_probability, price_cents, market_group) ==
    LET g == can_trade
        r == calculate_position_size(g, edge, win_probability, price_cents,
                                     market_group)
    IN  /\ ApplyGate(g)
        /\ result' = Returned("calculate_position_size", g.allowed, r.contracts,
                              r.reason, r.raised,
                              [edge |-> edge, win_probability |-> win_probability,
                               price_cents |-> price_cents,
                               market_group |-> market_group, size |-> r.size])
        /\ UNCHANGED <<limits, current_capital, positions, market_groups,
                       last_loss_time, recent_slippage, recent_errors, recent_fills,
                       realized_edge_window, now>>

\* MarketGroup.add_market on a group created when missing
GroupsAfterAdd(ticker, market_group) ==
    IF market_group = None THEN market_groups
    ELSE IF market_group \in DOMAIN market_groups
    THEN [market_groups EXCEPT ![market_group] = @ \cup {ticker}]
    ELSE [g \in DOMAIN market_groups \cup {market_group} |->
            IF g = market_group THEN {ticker} ELSE market_groups[g]]

AddPosition(ticker, side, contracts, entry_price_cents, market_group) ==
    LET position == [side |-> side, contracts |-> contracts,
                     entry_price_cents |-> entry_price_cents,
                     market_group |-> market_group]
    IN  /\ positions' = [t \in DOMAIN positions \cup {ticker} |->
                           IF t = ticker THEN position ELSE positions[t]]
        /\ daily_trades' = daily_trades + 1
        /\ market_groups' = GroupsAfterAdd(ticker, market_group)
        /\ result' = Void
        /\ UNCHANGED <<limits, current_capital, trading_state, kill_switch_reason,
                       daily_pnl, daily_reset_time, consecutive_losses,
                       last_loss_time, recent_slippage, recent_errors, recent_fills,
                       realized_edge_window, now>>

\* add_position with the contracts, price and group of the accepting
\* calculate_position_size call that has just returned
AddSized(ticker, side) ==
    /\ result.op = "calculate_position_size"
    /\ result.contracts >= 1
    /\ AddPosition(ticker, side, result.contracts, result.args.price_cents,
                   result.args.market_group)

\* the streak bookkeeping of close_position: <<consecutive_losses, state>>
StreakAfter(pnl) ==
    IF pnl < 0
    THEN <<consecutive_losses + 1,
           IF consecutive_losses + 1 >= limits.max_consecutive_losses
           THEN PAUSED ELSE trading_state>>
    ELSE <<0, trading_state>>

\* roi = pnl / entry_cost if entry_cost > 0 else 0
Roi(position, pnl) ==
    IF PositionCost(position) > 0 THEN Norm(pnl, PositionCost(position)) ELSE R(0)

\* len(window) >= 20 and np.mean(window) < 0
EdgeNegative_Mut(window) ==
    /\ Len(window) >= EdgeWindowMin
    /\ RLt(RSumSeq(SubSeq(window, Len(window) - EdgeWindowMin + 1, Len(window))),
           R(0))

EdgeNegative(window) ==
    Len(window) >= EdgeWindowMin /\ RLt(RSumSeq(window), R(0))

ClosePosition(ticker, pnl) ==
    IF ticker \notin DOMAIN positions
    THEN /\ result' = Void
         /\ UNCHANGED <<limits, current_capital, trading_state, kill_switch_reason,
                        positions, market_groups, daily_pnl, daily_trades,
                        daily_reset_time, consecutive_losses, last_loss_time,
                        recent_slippage, recent_errors, recent_fills,
                        realized_edge_window, now>>
    ELSE LET position == positions[ticker]
             streak == StreakAfter(pnl)
             window == DequeAppend(realized_edge_window, Roi(position, pnl),
                                   EdgeWindowMaxLen)
         IN  /\ current_capital' = current_capital + pnl
             /\ daily_pnl' = daily_pnl + pnl
             /\ consecutive_losses' = streak[1]
             /\ last_loss_time' = IF pnl < 0 THEN now ELSE last_loss_time
             /\ realized_edge_window' = window
             /\ trading_state' = IF EdgeNegative(window) THEN THROTTLED ELSE streak[2]
             /\ market_groups' =
                    IF position.market_group # None
                       /\ position.market_group \in DOMAIN market_groups
                    THEN [market_groups EXCEPT ![position.market_group] = @ \ {ticker}]
                    ELSE market_groups
             /\ positions' = [t \in DOMAIN positions \ {ticker} |-> positions[t]]
             /\ result' = Void
             /\ UNCHANGED <<limits, kill_switch_reason, daily_trades,
                            daily_reset_time, recent_slippage, recent_errors,
                            recent_fills, now>>

\* more than 30% of the recorded samples exceed max_slippage_bps
SlippagePattern(samples) ==
    Cardinality({i \in 1..Len(samples) : samples[i] > limits.max_slippage_bps}) * 100
        > Len(samples) * SlippagePatternPct

RecordSlippage(slippage_bps) ==
    LET samples == DequeAppend(recent_slippage, slippage_bps, SlippageMaxLen)
        trigger == slippage_bps > limits.max_slippage_bps /\ SlippagePattern(samples)
    IN  /\ recent_slippage' = samples
        /\ trading_state' = IF trigger THEN HALTED ELSE trading_state
        /\ kill_switch_reason' = IF trigger THEN SLIPPAGE_EXCESSIVE
                                 ELSE kill_switch_reason
        /\ result' = Void
        /\ UNCHANGED <<limits, current_capital, positions, market_groups, daily_pnl,
                       daily_trades, daily_reset_time, consecutive_losses,
                       last_loss_time, recent_errors, recent_fills,
                       realized_edge_window, now>>

RecordError ==
    /\ recent_errors' = DequeAppend(recent_errors, now, ErrorsMaxLen)
    /\ result' = Void
    /\ UNCHANGED <<limits, current_capital, trading_state, kill_switch_reason,
                   positions, market_groups, daily_pnl, daily_trades,
                   daily_reset_time, consecutive_losses, last_loss_time,
                   recent_slippage, recent_fills, realized_edge_window, now>>

RecordScanResult(had_fills) ==
    /\ recent_fills' = DequeAppend(recent_fills, had_fills,
                                   limits.min_fills_lookback_scans)
    /\ result' = Void
    /\ UNCHANGED <<limits, current_capital, trading_state, kill_switch_reason,
                   positions, market_groups, daily_pnl, daily_trades,
                   daily_reset_time, consecutive_losses, last_loss_time,
                   recent_slippage, recent_errors, realized_edge_window, now>>

\* mutant: the resume also forgets the recorded scans
ManualResume_Mut ==
    /\ trading_state' = ACTIVE
    /\ kill_switch_reason' = None
    /\ consecutive_losses' = 0
    /\ recent_fills' = <<>>
    /\ result' = Void
    /\ UNCHANGED <<limits, current_capital, positions, market_groups, daily_pnl,
                   daily_trades, daily_reset_time, last_loss_time, recent_slippage,
                   recent_errors, realized_edge_window, now>>

ManualResume ==
    /\ trading_state' = ACTIVE
    /\ kill_switch_reason' = None
    /\ consecutive_losses' = 0
    /\ result' = Void
    /\ UNCHANGED <<limits, current_capital, positions, market_groups, daily_pnl,
                   daily_trades, daily_reset_time, last_loss_time, recent_slippage,
                   recent_errors, recent_fills, realized_edge_window, now>>

(***************************************************************************)
(* Backtester settlement: FeeSchedule and Position of event_backtester.py. *)
(* Money is in cents as exact rationals; entry prices are rationals        *)
(* because a Position carries a float entry price.                         *)
(***************************************************************************)
VARIABLES
    fee_schedule,         \* the FeeSchedule in use
    bt_position,          \* the Position being settled
    bt_pnl,               \* what Position.calculate_pnl returned
    fee_returned          \* what a direct FeeSchedule.calculate_fee call returned

feevars == <<fee_schedule, bt_position, bt_pnl, fee_returned>>

\* FeeSchedule(): 7% of profit, no minimum; max_fee = None is as falsy as 0
FeeSchedule == [profit_fee_rate |-> Pct(7), min_fee |-> R(0), max_fee |-> R(0)]

\* str.lower() on the resolutions in use
Lower(s) ==
    CASE s = "YES" -> "yes"
      [] s = "No" -> "no"
      [] OTHER -> s

\* mutant: the fee is charged whether or not the position won
calculate_fee_Mut(entry_price_cents, contracts, won) ==
    LET total_profit == RMul(R(100 - entry_price_cents), R(contracts))
        fee == RMul(total_profit, fee_schedule.profit_fee_rate)
        fee1 == IF fee_schedule.min_fee # R(0) /\ RLt(fee, fee_schedule.min_fee)
                THEN fee_schedule.min_fee ELSE fee
    IN  IF fee_schedule.max_fee # R(0) /\ RLt(fee_schedule.max_fee, fee1)
        THEN fee_schedule.max_fee ELSE fee1

\* FeeSchedule.calculate_fee, in cents
calculate_fee(entry_price_cents, contracts, won) ==
    IF ~won THEN R(0)
    ELSE LET total_profit == RMul(R(100 - entry_price_cents), R(contracts))
             fee == RMul(total_profit, fee_schedule.profit_fee_rate)
             fee1 == IF fee_schedule.min_fee # R(0)
                        /\ RLt(fee, fee_schedule.min_fee)
                     THEN fee_schedule.min_fee ELSE fee
         IN  IF fee_schedule.max_fee # R(0) /\ RLt(fee_schedule.max_fee, fee1)
             THEN fee_schedule.max_fee ELSE fee1

\* Position.calculate_pnl: (gross_pnl, net_pnl, fee), in cents
calculate_pnl(self, resolution) ==
    LET won == self.side = Lower(resolution)
    IN  IF won
        THEN LET gross_pnl == RMul(RSub(R(100), self.entry_price_cents),
                                   R(self.contracts))
                 fee == calculate_fee(RTrunc(self.entry_price_cents),
                                      self.contracts, TRUE)
             IN  [gross_pnl |-> gross_pnl, net_pnl |-> RSub(gross_pnl, fee),
                  fee |-> fee]
        ELSE LET gross_pnl == RNeg(RMul(self.entry_price_cents, R(self.contracts)))
             IN  [gross_pnl |-> gross_pnl, net_pnl |-> gross_pnl, fee |-> R(0)]

NoPosition == [side |-> None, contracts |-> 0, entry_price_cents |-> R(0)]
NoPnl == [called |-> FALSE, resolution |-> None, gross_pnl |-> R(0),
          net_pnl |-> R(0), fee |-> R(0)]
NoFee == [called |-> FALSE, won |-> FALSE, fee |-> R(0)]

\* nothing is being settled
FeeIdle ==
    /\ fee_schedule = FeeSchedule
    /\ bt_position = NoPosition
    /\ bt_pnl = NoPnl
    /\ fee_returned = NoFee

\* position.calculate_pnl(resolution, fee_schedule) is called
CalculatePnl(resolution) ==
    LET r == calculate_pnl(bt_position, resolution)
    IN  /\ bt_pnl' = [called |-> TRUE, resolution |-> resolution,
                      gross_pnl |-> r.gross_pnl, net_pnl |-> r.net_pnl,
                      fee |-> r.fee]
        /\ UNCHANGED <<fee_schedule, bt_position, fee_returned>>

\* fee_schedule.calculate_fee(entry_price_cents, contracts, won) is called
CalculateFee(entry_price_cents, contracts, won) ==
    /\ fee_returned' = [called |-> TRUE, won |-> won,
                        fee |-> calculate_fee(entry_price_cents, contracts, won)]
    /\ UNCHANGED <<fee_schedule, bt_position, bt_pnl>>

(***************************************************************************)
(* EventBacktester, SlippageModel and MarketSnapshot of                    *)
(* event_backtester.py.  Capital, prices and P&L are exact rationals in    *)
(* cents.  Timestamps and the latencies drawn by LatencyModel are left     *)
(* out: no amount and no decision of submit_order or resolve_market reads  *)
(* them.                                                                   *)
(***************************************************************************)
VARIABLES
    bt_capital,           \* EventBacktester.capital
    bt_positions,         \* EventBacktester.positions: ticker -> Position
    orders,               \* EventBacktester.orders
    trades,               \* EventBacktester.trades
    equity_curve,         \* EventBacktester.equity_curve (the capital column)
    total_trades,         \* EventBacktester.total_trades
    winning_trades,       \* EventBacktester.winning_trades
    total_fees,           \* EventBacktester.total_fees
    bt_result             \* what the last submit_order / resolve_market returned

btvars == <<bt_capital, bt_positions, orders, trades, equity_curve, total_trades,
            winning_trades, total_fees, bt_result>>

\* OrderAction values
BUY == "buy"
SELL == "sell"

\* SlippageModel(): base_slippage_bps = 5.0, size_impact_factor = 0.1
base_slippage_bps == R(5)
size_impact_factor == <<1, 10>>
\* the constants of calculate_fill_price
BpsPerUnit == 10000
MinQuoteDepth == 100
MaxFillMultiple == 2
MinFillPrice == 1
MaxFillPrice == 99

\* the quote calculate_fill_price selects: <<quote_price, quote_size>>
SelectedQuote(snapshot, side, action) ==
    IF action = BUY
    THEN IF side = "yes" THEN <<snapshot.yes_ask, snapshot.yes_ask_size>>
                         ELSE <<snapshot.no_ask, snapshot.no_ask_size>>
    ELSE IF side = "yes" THEN <<snapshot.yes_bid, snapshot.yes_bid_size>>
                         ELSE <<snapshot.no_bid, snapshot.no_bid_size>>

\* mutant: slippage moves a buy's price down and a sell's price up
calculate_fill_price_Mut(snapshot, side, action, contracts) ==
    LET q == SelectedQuote(snapshot, side, action)
        quote_price == R(q[1])
        quote_size == q[2]
        size_ratio == IF quote_size > 0
                      THEN IF quote_size > MinQuoteDepth
                           THEN <<contracts, quote_size>>
                           ELSE <<contracts, MinQuoteDepth>>
                      ELSE <<1, 2>>
        slippage_bps == RAdd(base_slippage_bps,
                             RMul(RMul(size_ratio, size_impact_factor),
                                  R(BpsPerUnit)))
        drift == RDiv(slippage_bps, R(BpsPerUnit))
        fill_price == IF action = BUY
                      THEN RMul(quote_price, RSub(R(1), drift))
                      ELSE RMul(quote_price, RAdd(R(1), drift))
    IN  IF quote_size > 0 /\ contracts > quote_size * MaxFillMultiple
        THEN [fill_price |-> quote_price, filled |-> FALSE]
        ELSE [fill_price |-> RMax(R(MinFillPrice), RMin(R(MaxFillPrice), fill_price)),
              filled |-> TRUE]

\* SlippageModel.calculate_fill_price: (fill_price, filled)
calculate_fill_price(snapshot, side, action, contracts) ==
    LET q == SelectedQuote(snapshot, side, action)
        quote_price == R(q[1])
        quote_size == q[2]
        size_ratio == IF quote_size > 0
                      THEN IF quote_size > MinQuoteDepth
                           THEN <<contracts, quote_size>>
                           ELSE <<contracts, MinQuoteDepth>>
                      ELSE <<1, 2>>
        slippage_bps == RAdd(base_slippage_bps,
                             RMul(RMul(size_ratio, size_impact_factor),
                                  R(BpsPerUnit)))
        drift == RDiv(slippage_bps, R(BpsPerUnit))
        fill_price == IF action = BUY
                      THEN RMul(quote_price, RAdd(R(1), drift))
                      ELSE RMul(quote_price, RSub(R(1), drift))
    IN  IF quote_size > 0 /\ contracts > quote_size * MaxFillMultiple
        THEN [fill_price |-> quote_price, filled |-> FALSE]
        ELSE [fill_price |-> RMax(R(MinFillPrice), RMin(R(MaxFillPrice), fill_price)),
              filled |-> TRUE]

NoSnapshot == [yes_bid |-> 0, yes_ask |-> 0, no_bid |-> 0, no_ask |-> 0,
               yes_bid_size |-> 0, yes_ask_size |-> 0,
               no_bid_size |-> 0, no_ask_size |-> 0]
\* nothing has been called yet
NoCall == [op |-> None, returned |-> None, ticker |-> None, side |-> None,
           action |-> None, contracts |-> 0, quote_price |-> 0, quote_size |-> 0,
           fill_price |-> R(0), can_fill |-> FALSE, resolution |-> None]

\* EventBacktester.__init__(fee_schedule, initial_capital), apart from the fee
\* schedule
BTInit(initial_capital) ==
    /\ bt_capital = R(initial_capital)
    /\ bt_positions = <<>>
    /\ orders = <<>>
    /\ trades = <<>>
    /\ equity_curve = <<>>
    /\ total_trades = 0
    /\ winning_trades = 0
    /\ total_fees = R(0)
    /\ bt_result = NoCall

\* self.positions after a BUY fill: average in, or a new Position
PositionsAfterBuy(ticker, side, contracts, fill_price) ==
    IF ticker \in DOMAIN bt_positions
    THEN LET pos == bt_positions[ticker]
             total_contracts == pos.contracts + contracts
             avg_price == RDiv(RAdd(RMul(pos.entry_price_cents, R(pos.contracts)),
                                    RMul(fill_price, R(contracts))),
                               R(total_contracts))
         IN  [bt_positions EXCEPT ![ticker] =
                 [@ EXCEPT !.contracts = total_contracts,
                           !.entry_price_cents = avg_price]]
    ELSE [t \in DOMAIN bt_positions \cup {ticker} |->
            IF t = ticker
            THEN [side |-> side, contracts |-> contracts,
                  entry_price_cents |-> fill_price]
            ELSE bt_positions[t]]

\* mutant: a BUY is accepted whatever it costs
SubmitOrder_Mut(ticker, side, action, contracts, market_snapshot) ==
    LET f == calculate_fill_price(market_snapshot, side, action, contracts)
        fill_price == f.fill_price
        cost == RMul(fill_price, R(contracts))
        call == [NoCall EXCEPT !.op = "submit_order", !.ticker = ticker,
                               !.side = side, !.action = action,
                               !.contracts = contracts,
                               !.quote_price =
                                   SelectedQuote(market_snapshot, side, action)[1],
                               !.quote_size =
                                   SelectedQuote(market_snapshot, side, action)[2],
                               !.fill_price = fill_price,
                               !.can_fill = f.filled]
        order == [ticker |-> ticker, side |-> side, action |-> action,
                  contracts |-> contracts, price_cents |-> RTrunc(fill_price),
                  filled_contracts |-> contracts,
                  avg_fill_price_cents |-> fill_price]
    IN  IF ~f.filled
        THEN /\ bt_result' = call
             /\ UNCHANGED <<bt_capital, bt_positions, orders, trades, equity_curve,
                            total_trades, winning_trades, total_fees>>
        ELSE /\ bt_capital' = IF action = BUY THEN RSub(bt_capital, cost)
                                              ELSE RAdd(bt_capital, cost)
             /\ orders' = Append(orders, order)
             /\ bt_positions' = IF action = BUY
                                THEN PositionsAfterBuy(ticker, side, contracts,
                                                       fill_price)
                                ELSE bt_positions
             /\ bt_result' = [call EXCEPT !.returned = "order"]
             /\ UNCHANGED <<trades, equity_curve, total_trades, winning_trades,
                            total_fees>>

\* EventBacktester.submit_order
SubmitOrder(ticker, side, action, contracts, market_snapshot) ==
    LET f == calculate_fill_price(market_snapshot, side, action, contracts)
        fill_price == f.fill_price
        cost == RMul(fill_price, R(contracts))
        call == [NoCall EXCEPT !.op = "submit_order", !.ticker = ticker,
                               !.side = side, !.action = action,
                               !.contracts = contracts,
                               !.quote_price =
                                   SelectedQuote(market_snapshot, side, action)[1],
                               !.quote_size =
                                   SelectedQuote(market_snapshot, side, action)[2],
                               !.fill_price = fill_price,
                               !.can_fill = f.filled]
        order == [ticker |-> ticker, side |-> side, action |-> action,
                  contracts |-> contracts, price_cents |-> RTrunc(fill_price),
                  filled_contracts |-> contracts,
                  avg_fill_price_cents |-> fill_price]
    IN  IF ~f.filled \/ (action = BUY /\ RLt(bt_capital, cost))
        THEN /\ bt_result' = call
             /\ UNCHANGED <<bt_capital, bt_positions, orders, trades, equity_curve,
                            total_trades, winning_trades, total_fees>>
        ELSE /\ bt_capital' = IF action = BUY THEN RSub(bt_capital, cost)
                                              ELSE RAdd(bt_capital, cost)
             /\ orders' = Append(orders, order)
             /\ bt_positions' = IF action = BUY
                                THEN PositionsAfterBuy(ticker, side, contracts,
                                                       fill_price)
                                ELSE bt_positions
             /\ bt_result' = [call EXCEPT !.returned = "order"]
             /\ UNCHANGED <<trades, equity_curve, total_trades, winning_trades,
                            total_fees>>

\* mutant: the settled position is kept
ResolveMarket_Mut(ticker, resolution) ==
    LET call == [NoCall EXCEPT !.op = "resolve_market", !.ticker = ticker,
                               !.resolution = resolution]
    IN  IF ticker \notin DOMAIN bt_positions
        THEN /\ bt_result' = call
             /\ UNCHANGED <<bt_capital, bt_positions, orders, trades, equity_curve,
                            total_trades, winning_trades, total_fees>>
        ELSE LET position == bt_positions[ticker]
                 r == calculate_pnl(position, resolution)
                 payout == R(position.contracts * 100)
                 capital == IF Lower(resolution) = position.side
                            THEN RAdd(bt_capital, RSub(payout, r.fee))
                            ELSE bt_capital
                 trade == [ticker |-> ticker, side |-> position.side,
                           contracts |-> position.contracts,
                           entry_price |-> position.entry_price_cents,
                           resolution |-> resolution,
                           gross_pnl |-> r.gross_pnl, net_pnl |-> r.net_pnl,
                           fee |-> r.fee]
             IN  /\ bt_capital' = capital
                 /\ total_trades' = total_trades + 1
                 /\ winning_trades' = IF RLt(R(0), r.net_pnl)
                                      THEN winning_trades + 1 ELSE winning_trades
                 /\ total_fees' = RAdd(total_fees, r.fee)
                 /\ trades' = Append(trades, trade)
                 /\ equity_curve' = Append(equity_curve, capital)
                 /\ bt_positions' = bt_positions
                 /\ bt_result' = [call EXCEPT !.returned = "trade"]
                 /\ UNCHANGED orders

\* EventBacktester.resolve_market
ResolveMarket(ticker, resolution) ==
    LET call == [NoCall EXCEPT !.op = "resolve_market", !.ticker = ticker,
                               !.resolution = resolution]
    IN  IF ticker \notin DOMAIN bt_positions
        THEN /\ bt_result' = call
             /\ UNCHANGED <<bt_capital, bt_positions, orders, trades, equity_curve,
                            total_trades, winning_trades, total_fees>>
        ELSE LET position == bt_positions[ticker]
                 r == calculate_pnl(position, resolution)
                 payout == R(position.contracts * 100)
                 capital == IF Lower(resolution) = position.side
                            THEN RAdd(bt_capital, RSub(payout, r.fee))
                            ELSE bt_capital
                 trade == [ticker |-> ticker, side |-> position.side,
                           contracts |-> position.contracts,
                           entry_price |-> position.entry_price_cents,
                           resolution |-> resolution,
                           gross_pnl |-> r.gross_pnl, net_pnl |-> r.net_pnl,
                           fee |-> r.fee]
             IN  /\ bt_capital' = capital
                 /\ total_trades' = total_trades + 1
                 /\ winning_trades' = IF RLt(R(0), r.net_pnl)
                                      THEN winning_trades + 1 ELSE winning_trades
                 /\ total_fees' = RAdd(total_fees, r.fee)
                 /\ trades' = Append(trades, trade)
                 /\ equity_curve' = Append(equity_curve, capital)
                 /\ bt_positions' = [t \in DOMAIN bt_positions \ {ticker} |->
                                        bt_positions[t]]
                 /\ bt_result' = [call EXCEPT !.returned = "trade"]
                 /\ UNCHANGED orders

\* a backtester nothing has been done with
BTIdle == BTInit(0)

(***************************************************************************)
(* Spec: the kill-switch state machine under every interleaving of the     *)
(* RiskManager operations, on a small account with small limits.           *)
(***************************************************************************)
\* bounds of the exploration
StartHour == 22
MaxHour == 24
MaxEvents == 3

\* $10.00 account; limits scaled down so that every breaker is within reach
SmallCapital == 1000
SmallLimits ==
    [RiskLimits EXCEPT !.max_daily_loss_dollars = 55,
                       !.max_daily_trades = 4,
                       !.max_consecutive_losses = 2,
                       !.loss_streak_pause_hours = 1,
                       !.max_error_rate_per_hour = 2,
                       !.min_fills_lookback_scans = 2]

Tickers == {"T1"}
PnlSet == {-10, -40, 60}
SlippageSet == {10, 80}
\* proposals <<edge, win_probability, price_cents, market_group>>
Proposals == {<<5, 60, 50, None>>}

Init == RMInit(SmallCapital, SmallLimits, StartHour) /\ FeeIdle /\ BTIdle

\* The manager after WarmTrades break-even settlements (pnl = 0) on earlier
\* days and a can_trade() today: every field is as after construction except
\* the ROI window, which holds WarmTrades zeros.
WarmTrades == EdgeWindowMin - 1
InitWarm ==
    /\ realized_edge_window = [i \in 1..WarmTrades |-> R(0)]
    /\ limits = SmallLimits
    /\ current_capital = SmallCapital
    /\ trading_state = ACTIVE
    /\ kill_switch_reason = None
    /\ positions = <<>>
    /\ market_groups = <<>>
    /\ daily_pnl = 0
    /\ daily_trades = 0
    /\ daily_reset_time = Midnight(StartHour)
    /\ consecutive_losses = 0
    /\ last_loss_time = NoTime
    /\ recent_slippage = <<>>
    /\ recent_errors = <<>>
    /\ recent_fills = <<>>
    /\ now = StartHour
    /\ result = Void
    /\ FeeIdle
    /\ BTIdle

\* settlements (since the start of the run) and monitoring records made so far
Settled == IF Len(realized_edge_window) >= WarmTrades
           THEN Len(realized_edge_window) - WarmTrades
           ELSE Len(realized_edge_window)
Events == Settled + Len(recent_slippage) + Len(recent_errors) + Len(recent_fills)

TickStep == now < MaxHour /\ Tick(1) /\ UNCHANGED <<feevars, btvars>>
CanTradeStep == CanTrade /\ UNCHANGED <<feevars, btvars>>
SizeStep ==
    /\ \E a \in Proposals : CalculatePositionSize(a[1], a[2], a[3], a[4])
    /\ UNCHANGED <<feevars, btvars>>
\* a position is opened for a ticker that has none
AddStep ==
    /\ \E t \in Tickers \ DOMAIN positions : AddPosition(t, "yes", 1, 50, None)
    /\ UNCHANGED <<feevars, btvars>>
CloseStep ==
    /\ Events < MaxEvents
    /\ \E t \in Tickers, pnl \in PnlSet : ClosePosition(t, pnl)
    /\ UNCHANGED <<feevars, btvars>>
SlippageStep ==
    /\ Events < MaxEvents
    /\ \E b \in SlippageSet : RecordSlippage(b)
    /\ UNCHANGED <<feevars, btvars>>
ErrorStep == Events < MaxEvents /\ RecordError /\ UNCHANGED <<feevars, btvars>>
ScanStep ==
    /\ Events < MaxEvents
    /\ \E f \in BOOLEAN : RecordScanResult(f)
    /\ UNCHANGED <<feevars, btvars>>
ResumeStep == ManualResume /\ UNCHANGED <<feevars, btvars>>

Next ==
    \/ TickStep
    \/ CanTradeStep
    \/ SizeStep
    \/ AddStep
    \/ CloseStep
    \/ SlippageStep
    \/ ErrorStep
    \/ ScanStep
    \/ ResumeStep

vars == <<rmvars, feevars, btvars>>

Spec == Init /\ [][Next]_vars

\* the same operations, started from the warm manager
SpecWarm == InitWarm /\ [][Next]_vars

(***************************************************************************)
(* Claims on the kill-switch state machine.                                *)
(***************************************************************************)
GateOps == {"can_trade", "calculate_position_size"}

\* C1: once trading_state is HALTED it stays HALTED under every operation
\* other than manual_resume().
C1_HaltedUntilResume ==
    [][(trading_state = HALTED /\ ~ManualResume) => trading_state' = HALTED]_vars

\* C2: after a halt, no can_trade() returns True until manual_resume() is
\* called.  kill_switch_reason is set by every transition into HALTED and is
\* cleared by manual_resume() alone, so it marks "halted and not yet resumed".
C2_HaltPersists ==
    (result.op = "can_trade" /\ result.allowed) => kill_switch_reason = None

\* the day's realized loss has reached a daily-loss limit
LossLimitReached ==
    \/ -daily_pnl >= limits.max_daily_loss_dollars
    \/ /\ current_capital > 0
       /\ (-daily_pnl) * 100 >= limits.max_daily_loss_pct * current_capital

\* fewer than min_fills_per_scan fills across the last lookback scans
NoFillPattern ==
    /\ Len(recent_fills) >= limits.min_fills_lookback_scans
    /\ FillCount < limits.min_fills_per_scan

\* C3: the gate never fails open: a size >= 1 is returned only when the
\* sizer's can_trade() said yes, and can_trade() says yes only in state ACTIVE
\* with the daily loss below both limits, daily_trades below its limit, fewer
\* than max_error_rate_per_hour errors in the trailing hour and no no-fill
\* pattern.
C3_GateNeverFailsOpen ==
    /\ (result.op = "calculate_position_size" /\ result.contracts >= 1)
          => result.allowed
    /\ (result.op \in GateOps /\ result.allowed) =>
          /\ trading_state = ACTIVE
          /\ ~LossLimitReached
          /\ daily_trades < limits.max_daily_trades
          /\ ErrorsInLastHour < limits.max_error_rate_per_hour
          /\ ~NoFillPattern

\* a step of can_trade() taken while PAUSED, before / after the pause has run
\* for loss_streak_pause_hours since the last loss
PausedGateStep == trading_state = PAUSED /\ result'.op \in GateOps
PauseElapsed == now - last_loss_time >= limits.loss_streak_pause_hours

\* the N-th consecutive losing close_position, taken in state ACTIVE
StreakCloseStep ==
    /\ trading_state = ACTIVE
    /\ consecutive_losses' = consecutive_losses + 1
    /\ consecutive_losses' >= limits.max_consecutive_losses

\* one of the checks that follow the pause check in can_trade() fails, on the
\* values can_trade() leaves behind
LaterCheckFails ==
    \/ Abs(daily_pnl') >= limits.max_daily_loss_dollars
    \/ current_capital = 0
    \/ (current_capital > 0
          /\ Abs(daily_pnl') * 100 >= limits.max_daily_loss_pct * current_capital)
    \/ daily_trades' >= limits.max_daily_trades
    \/ (Len(recent_errors) >= ErrorBurstMinSamples
          /\ ErrorsInLastHour >= limits.max_error_rate_per_hour)
    \/ NoFillPattern

\* C4 as stated: N consecutive losses from ACTIVE give PAUSED; while the pause
\* runs can_trade() is False with the loss-streak reason; the first
\* can_trade() after it returns True, with state ACTIVE and the streak at 0.
C4_Original ==
    [][/\ StreakCloseStep => trading_state' = PAUSED
       /\ (PausedGateStep /\ ~PauseElapsed) =>
             (~result'.allowed /\ result'.reason = "loss_streak")
       /\ (PausedGateStep /\ PauseElapsed) =>
             (result'.allowed /\ trading_state' = ACTIVE /\ consecutive_losses' = 0)
      ]_vars

\* C4 amended: the N-th loss gives PAUSED unless the realized-edge check of
\* the same close_position throttles; the first can_trade() after the pause
\* lifts it and resets the streak, and returns True (state ACTIVE) exactly
\* when none of the later checks of the gate fails.
C4_PauseAndResume ==
    [][/\ StreakCloseStep =>
             /\ trading_state' \in {PAUSED, THROTTLED}
             /\ (trading_state' = THROTTLED) <=>
                    (Len(realized_edge_window') >= EdgeWindowMin
                        /\ RLt(RSumSeq(realized_edge_window'), R(0)))
       /\ (PausedGateStep /\ ~PauseElapsed) =>
             /\ ~result'.allowed /\ result'.reason = "loss_streak"
             /\ trading_state' = PAUSED
             /\ consecutive_losses' = consecutive_losses
       /\ (PausedGateStep /\ PauseElapsed) =>
             /\ consecutive_losses' = 0
             /\ trading_state' \in {ACTIVE, HALTED}
             /\ result'.allowed <=> ~LaterCheckFails
             /\ result'.allowed => trading_state' = ACTIVE
             /\ ~result'.allowed => result'.reason # "loss_streak"
      ]_vars

\* the pause was lifted by can_trade() and the gate opened
C4_Witness ==
    /\ result.op = "can_trade" /\ result.allowed
    /\ now \div HoursPerDay = StartHour \div HoursPerDay
    /\ last_loss_time # NoTime
    /\ now - last_loss_time >= limits.loss_streak_pause_hours
    /\ Len(realized_edge_window) >= limits.max_consecutive_losses
    /\ realized_edge_window[Len(realized_edge_window)][1] < 0
    /\ realized_edge_window[Len(realized_edge_window) - 1][1] < 0

\* C5: the first can_trade() after the clock has crossed midnight sets
\* daily_pnl and daily_trades to 0 and leaves current_capital alone; a
\* can_trade() on the day of the last reset resets nothing.
C5_DailyResetOnce ==
    [][result'.op \in GateOps =>
          /\ current_capital' = current_capital
          /\ daily_reset_time' \div HoursPerDay = now \div HoursPerDay
          /\ IF now \div HoursPerDay > daily_reset_time \div HoursPerDay
             THEN daily_pnl' = 0 /\ daily_trades' = 0
             ELSE daily_pnl' = daily_pnl /\ daily_trades' = daily_trades
                  /\ daily_reset_time' = daily_reset_time
      ]_vars

\* a can_trade() after midnight has zeroed counters that were not zero
C5_Witness ==
    /\ result.op = "can_trade"
    /\ now \div HoursPerDay > StartHour \div HoursPerDay
    /\ current_capital # SmallCapital
    /\ daily_pnl = 0 /\ daily_trades = 0

\* C6: can_trade() halts with DAILY_LOSS_LIMIT exactly when the day's
\* realized loss has reached a limit; a day in profit never triggers it.
C6_LossOnly ==
    (result.op \in GateOps /\ result.reason \notin {"halted", "loss_streak"}) =>
        (result.reason \in {"daily_loss", "daily_loss_pct"} <=> LossLimitReached)

(***************************************************************************)
(* SpecSize: the position sizer and the exposure it tracks.  Every          *)
(* add_position takes the contracts, price and group of the accepting      *)
(* calculate_position_size call made just before it.                       *)
(***************************************************************************)
MaxSized == 3
MaxSettled == 2

SizeTickers == {"T1", "T2"}
SizeCapitals == {0, SmallCapital}
\* the default limits, and limits whose group cap is below the single cap
TightGroupLimits ==
    [RiskLimits EXCEPT !.max_single_position_pct = 10,
                       !.max_correlated_group_pct = 5]
SizeLimits == {RiskLimits, TightGroupLimits}
SizePnl == {-40, 60}
SizeProposals ==
    {<<5, 60, 50, "G1">>, <<40, 90, 50, "G1">>, <<40, 90, 50, None>>,
     <<1, 60, 50, None>>, <<5, 60, 100, None>>, <<5, 5, 10, None>>,
     <<1, 60, 100, "G1">>}

InitSize ==
    /\ \E c \in SizeCapitals, lim \in SizeLimits : RMInit(c, lim, StartHour)
    /\ FeeIdle
    /\ BTIdle

SizeCall ==
    /\ \E a \in SizeProposals : CalculatePositionSize(a[1], a[2], a[3], a[4])
    /\ UNCHANGED <<feevars, btvars>>
SizedAdd ==
    /\ daily_trades < MaxSized
    /\ \E t \in SizeTickers : AddSized(t, "yes")
    /\ UNCHANGED <<feevars, btvars>>
SizeClose ==
    /\ Len(realized_edge_window) < MaxSettled
    /\ \E t \in DOMAIN positions, pnl \in SizePnl : ClosePosition(t, pnl)
    /\ UNCHANGED <<feevars, btvars>>

NextSize ==
    \/ SizeCall
    \/ SizedAdd
    \/ SizeClose

SpecSize == InitSize /\ [][NextSize]_vars

\* C7: in every reachable state of SpecSize the exposure of each group is at
\* most max_correlated_group_pct x current_capital and the total exposure is
\* at most max_total_exposure_pct x current_capital.
C7_ExposureWithinCaps ==
    /\ \A g \in DOMAIN market_groups :
          _get_group_exposure(g) * 100
              <= limits.max_correlated_group_pct * current_capital
    /\ _get_total_exposure * 100 <= limits.max_total_exposure_pct * current_capital

\* contracts x price_cents of the proposal that was just sized, in cents
SizedCost == result.contracts * result.args.price_cents

\* C8: an accepted proposal costs no more than the single-position cap, the
\* headroom of its group (a group without a position has its whole cap as
\* headroom) and the total headroom, and its contracts are the floor of the
\* final dollar size over the price.
C8_SizeWithinCaps ==
    (result.op = "calculate_position_size" /\ result.contracts >= 1) =>
        /\ SizedCost * 100 <= limits.max_single_position_pct * current_capital
        /\ result.args.market_group # None =>
              (SizedCost + _get_group_exposure(result.args.market_group)) * 100
                  <= limits.max_correlated_group_pct * current_capital
        /\ (SizedCost + _get_total_exposure) * 100
              <= limits.max_total_exposure_pct * current_capital
        /\ result.contracts
              = RTrunc(RDiv(result.args.size, R(result.args.price_cents)))

\* C9: a proposal whose edge is below min_edge_to_trade gets 0 contracts
\* back from calculate_position_size, in every state.
C9_SmallEdgeRefused ==
    (result.op = "calculate_position_size"
        /\ result.args.edge < limits.min_edge_to_trade) =>
        /\ ~result.raised
        /\ result.contracts = 0

(***************************************************************************)
(* SpecFee: settlement of one position.  The position and the fee schedule *)
(* are drawn from small sets; calculate_pnl and calculate_fee are applied  *)
(* to them.                                                                *)
(***************************************************************************)
MaxContracts == 3

FeeSides == {"yes", "no"}
\* whole-cent prices and the fractional prices left by slippage and averaging
FeeEntryPrices == {R(1), <<3, 2>>, R(50), <<101, 2>>, R(99)}
FeeResolutions == {"yes", "no", "YES", "No"}
FeeSchedules ==
    {FeeSchedule,
     [FeeSchedule EXCEPT !.min_fee = R(50)],
     [FeeSchedule EXCEPT !.max_fee = R(10)]}
FeeCallPrices == {1, 50, 99}

InitFee ==
    /\ RMInit(SmallCapital, SmallLimits, StartHour)
    /\ fee_schedule \in FeeSchedules
    /\ bt_position \in [side : FeeSides, contracts : 1..MaxContracts,
                        entry_price_cents : FeeEntryPrices]
    /\ bt_pnl = NoPnl
    /\ fee_returned = NoFee
    /\ BTIdle

PnlStep ==
    /\ \E resolution \in FeeResolutions : CalculatePnl(resolution)
    /\ UNCHANGED <<rmvars, btvars>>
FeeStep ==
    /\ \E e \in FeeCallPrices, c \in 1..MaxContracts, won \in BOOLEAN :
          CalculateFee(e, c, won)
    /\ UNCHANGED <<rmvars, btvars>>

NextFee ==
    \/ PnlStep
    \/ FeeStep

SpecFee == InitFee /\ [][NextFee]_vars

\* the settled position lost: its side is not the resolution
Lost == bt_pnl.called /\ bt_position.side # Lower(bt_pnl.resolution)

\* C10: a position that loses at settlement pays no fee and its net and gross
\* P&L are both minus its entry cost, entry price x contracts; and
\* calculate_fee returns a positive fee only when won is true.
C10_LosersPayNoFee ==
    /\ Lost =>
          /\ bt_pnl.fee = R(0)
          /\ bt_pnl.net_pnl = bt_pnl.gross_pnl
          /\ bt_pnl.gross_pnl
                = RNeg(RMul(bt_position.entry_price_cents, R(bt_position.contracts)))
    /\ (fee_returned.called /\ RLt(R(0), fee_returned.fee)) => fee_returned.won

\* a position with a fractional entry price lost under a schedule with a
\* minimum fee, and calculate_fee was asked about a loser
C10_Witness ==
    /\ Lost
    /\ bt_position.entry_price_cents = <<101, 2>>
    /\ bt_position.contracts = MaxContracts
    /\ fee_schedule.min_fee # R(0)
    /\ fee_returned.called
    /\ ~fee_returned.won

(***************************************************************************)
(* SpecBT: the backtester under every interleaving of submit_order and     *)
(* resolve_market, on a $2.00 account.                                     *)
(***************************************************************************)
MaxOrders == 2
MaxTrades == 2

BtCapital == 200
BtTickers == {"T1"}
BtContracts == {1, 3}
BtFeeSchedules == {FeeSchedule, [FeeSchedule EXCEPT !.min_fee = R(50)]}
\* a thin book on the yes side with no sizes given for the no side (0), and
\* a deep book quoted at the ends of the price range
BtSnapshots ==
    {[NoSnapshot EXCEPT !.yes_bid = 48, !.yes_ask = 50, !.no_bid = 50,
                        !.no_ask = 52, !.yes_bid_size = 1, !.yes_ask_size = 1],
     [NoSnapshot EXCEPT !.yes_bid = 0, !.yes_ask = 4, !.no_bid = 96,
                        !.no_ask = 100, !.yes_bid_size = 100,
                        !.yes_ask_size = 100, !.no_bid_size = 100,
                        !.no_ask_size = 100]}

InitBT ==
    /\ RMInit(SmallCapital, SmallLimits, StartHour)
    /\ fee_schedule \in BtFeeSchedules
    /\ bt_position = NoPosition
    /\ bt_pnl = NoPnl
    /\ fee_returned = NoFee
    /\ BTInit(BtCapital)

SubmitStep ==
    /\ Len(orders) < MaxOrders
    /\ \E ticker \in BtTickers, side \in FeeSides, action \in {BUY, SELL},
          contracts \in BtContracts, snapshot \in BtSnapshots :
          SubmitOrder(ticker, side, action, contracts, snapshot)
    /\ UNCHANGED <<rmvars, feevars>>
ResolveStep ==
    /\ Len(trades) < MaxTrades
    /\ \E ticker \in BtTickers, resolution \in FeeSides :
          ResolveMarket(ticker, resolution)
    /\ UNCHANGED <<rmvars, feevars>>

NextBT ==
    \/ SubmitStep
    \/ ResolveStep

SpecBT == InitBT /\ [][NextBT]_vars

\* C11: for every winning position the backtester has settled with no
\* minimum and no maximum fee configured, gross_pnl = (100 - entry price) x
\* contracts, fee = profit_fee_rate x gross_pnl and net_pnl = gross_pnl - fee,
\* whatever entry price the position carried.
C11_WinnerFee ==
    \A i \in 1..Len(trades) :
        (/\ trades[i].side = Lower(trades[i].resolution)
         /\ fee_schedule.min_fee = R(0)
         /\ fee_schedule.max_fee = R(0)) =>
            /\ trades[i].gross_pnl
                  = RMul(RSub(R(100), trades[i].entry_price), R(trades[i].contracts))
            /\ trades[i].fee
                  = RMul(fee_schedule.profit_fee_rate, trades[i].gross_pnl)
            /\ trades[i].net_pnl = RSub(trades[i].gross_pnl, trades[i].fee)

\* C12: an order for more than twice the displayed size of the quote it
\* hits (a displayed size of 0 included) is not filled: submit_order returns
\* None and leaves capital, positions and the order list as they were.
C12_ThinBookRejected ==
    [][(/\ bt_result'.op = "submit_order"
        /\ bt_result'.contracts > MaxFillMultiple * bt_result'.quote_size) =>
            /\ ~bt_result'.can_fill
            /\ bt_result'.returned = None
            /\ UNCHANGED <<bt_capital, bt_positions, orders>>]_vars

\* the last call was a submit_order that the slippage model filled
Filled == bt_result.op = "submit_order" /\ bt_result.can_fill

\* C13 as stated: every fill price is within [1, 99]; a BUY fills at or above
\* the quoted ask and a SELL at or below the quoted bid.
C13_Original ==
    Filled =>
        /\ RLe(R(MinFillPrice), bt_result.fill_price)
        /\ RLe(bt_result.fill_price, R(MaxFillPrice))
        /\ bt_result.action = BUY =>
              RLe(R(bt_result.quote_price), bt_result.fill_price)
        /\ bt_result.action = SELL =>
              RLe(bt_result.fill_price, R(bt_result.quote_price))

\* C13 amended: every fill price is within [1, 99]; a BUY fills at or above
\* min(quoted ask, 99) and a SELL at or below max(quoted bid, 1).
C13_FillAdverseThenClamped ==
    Filled =>
        /\ RLe(R(MinFillPrice), bt_result.fill_price)
        /\ RLe(bt_result.fill_price, R(MaxFillPrice))
        /\ bt_result.action = BUY =>
              RLe(RMin(R(bt_result.quote_price), R(MaxFillPrice)),
                  bt_result.fill_price)
        /\ bt_result.action = SELL =>
              RLe(bt_result.fill_price,
                  RMax(R(bt_result.quote_price), R(MinFillPrice)))

\* a BUY against an ask of 100 was filled at 99, after a BUY or SELL inside
\* the range had been filled away from its quote
C13_Witness ==
    /\ Filled
    /\ bt_result.action = BUY
    /\ bt_result.quote_price = 100
    /\ bt_result.fill_price = R(MaxFillPrice)
    /\ \E i \in 1..Len(orders) :
          /\ orders[i].avg_fill_price_cents # R(MaxFillPrice)
          /\ orders[i].avg_fill_price_cents # R(MinFillPrice)

(***************************************************************************)
(* SpecExample: a proposal is sized, the position is opened with the size  *)
(* returned, settled with Position.calculate_pnl, and its net P&L is       *)
(* handed to close_position (as main.py does), under the default limits    *)
(* and the default fee schedule.                                           *)
(***************************************************************************)
MaxExampleTrades == 1

ExampleCapital == 100000
ExampleCapitals == {ExampleCapital, 20000}
ExampleProposals == {<<15, 60, 40, None>>, <<15, 60, 50, None>>, <<2, 60, 40, None>>}
\* positions settled on their own: Position(...).calculate_pnl(resolution)
ExamplePositions ==
    [side : FeeSides, contracts : {125, 208}, entry_price_cents : {R(40)}]

InitExample ==
    /\ \E c \in ExampleCapitals : RMInit(c, RiskLimits, StartHour)
    /\ FeeIdle
    /\ BTIdle

ExampleSize ==
    /\ \E a \in ExampleProposals : CalculatePositionSize(a[1], a[2], a[3], a[4])
    /\ UNCHANGED <<feevars, btvars>>
ExampleAdd ==
    /\ daily_trades < MaxExampleTrades
    /\ AddSized("T1", "yes")
    /\ UNCHANGED <<feevars, btvars>>
\* the open position is settled and closed with its net P&L (whole cents)
ExampleSettle ==
    /\ "T1" \in DOMAIN positions
    /\ \E resolution \in FeeSides :
          LET self == [side |-> positions["T1"].side,
                       contracts |-> positions["T1"].contracts,
                       entry_price_cents |-> R(positions["T1"].entry_price_cents)]
              r == calculate_pnl(self, resolution)
          IN  /\ r.net_pnl[2] = 1
              /\ bt_position' = self
              /\ bt_pnl' = [called |-> TRUE, resolution |-> resolution,
                            gross_pnl |-> r.gross_pnl, net_pnl |-> r.net_pnl,
                            fee |-> r.fee]
              /\ ClosePosition("T1", r.net_pnl[1])
    /\ UNCHANGED <<fee_schedule, fee_returned, btvars>>
ExamplePnl ==
    /\ \E self \in ExamplePositions, resolution \in FeeSides :
          LET r == calculate_pnl(self, resolution)
          IN  /\ bt_position' = self
              /\ bt_pnl' = [called |-> TRUE, resolution |-> resolution,
                            gross_pnl |-> r.gross_pnl, net_pnl |-> r.net_pnl,
                            fee |-> r.fee]
    /\ UNCHANGED <<fee_schedule, fee_returned, rmvars, btvars>>

NextExample ==
    \/ ExampleSize
    \/ ExampleAdd
    \/ ExampleSettle
    \/ ExamplePnl

SpecExample == InitExample /\ [][NextExample]_vars

\* the example's proposal was sized by a fresh $1000 manager
ExampleSized ==
    /\ result.op = "calculate_position_size"
    /\ result.args.edge = 15
    /\ result.args.win_probability = 60
    /\ result.args.price_cents = 40
    /\ current_capital = ExampleCapital
    /\ positions = <<>>
    /\ daily_trades = 0

\* a winning 'yes' position of n contracts entered at 40 cents was settled
ExampleWon(n) ==
    /\ bt_pnl.called
    /\ bt_pnl.resolution = "yes"
    /\ bt_position = [side |-> "yes", contracts |-> n, entry_price_cents |-> R(40)]

\* C14 as stated: the sizer returns 208 contracts, and a winning 208-contract
\* 'yes' position entered at 40 cents has gross 124.80, fee 8.736 and net
\* 116.064 dollars.
C14_Original ==
    /\ ExampleSized => result.contracts = 208
    /\ ExampleWon(208) =>
          /\ bt_pnl.gross_pnl = R(12480)
          /\ bt_pnl.fee = <<4368, 5>>
          /\ bt_pnl.net_pnl = <<58032, 5>>

\* C14 amended: the sizer returns 125 contracts (the 5% single-position cap
\* binds: $50 at 40 cents); the winning 125-contract position has gross
\* 75.00, fee 5.25 and net 69.75 dollars and close_position with that net
\* brings the capital from 1000.00 to 1069.75; a winning 208-contract
\* position would have gross 124.80, fee 8.736 and net 116.064.
C14_Example ==
    [][/\ ExampleSized' => result'.contracts = 125
       /\ ExampleWon(125)' =>
             /\ bt_pnl'.gross_pnl = R(7500)
             /\ bt_pnl'.fee = R(525)
             /\ bt_pnl'.net_pnl = R(6975)
       /\ ExampleWon(208)' =>
             /\ bt_pnl'.gross_pnl = R(12480)
             /\ bt_pnl'.fee = <<4368, 5>>
             /\ bt_pnl'.net_pnl = <<58032, 5>>
       /\ (/\ current_capital = ExampleCapital
           /\ "T1" \in DOMAIN positions
           /\ positions["T1"].entry_price_cents = 40
           /\ positions' = <<>>
           /\ bt_pnl'.resolution = "yes") =>
             /\ positions["T1"].contracts = 125
             /\ ExampleWon(125)'
             /\ current_capital' = 106975]_vars

\* the sized position was opened, won and was closed, leaving $1069.75, and
\* the 208-contract position has been settled on its own
C14_Witness ==
    /\ current_capital = 106975
    /\ Len(realized_edge_window) = 1
    /\ positions = <<>>
    /\ ExampleWon(208)

\* the sizer got as far as the Kelly computation for the proposal it was given
KellyStage ==
    /\ result.op = "calculate_position_size"
    /\ ~result.raised
    /\ result.allowed
    /\ result.args.edge >= limits.min_edge_to_trade
    /\ result.args.price_cents > 0
    /\ result.args.price_cents < 100

\* f = (p x odds - (1 - p)) / odds with odds = (100 - price_cents)/price_cents
FullKelly ==
    LET p == <<result.args.win_probability, 100>>
        odds == RDiv(R(100 - result.args.price_cents), R(result.args.price_cents))
    IN  RDiv(RSub(RMul(p, odds), RSub(R(1), p)), odds)

\* capital x kelly_fraction x f, in cents
KellyAmount ==
    RMul(RMul(R(current_capital), <<limits.kelly_fraction, 100>>), FullKelly)

\* the Kelly amount is within [min_kelly_bet, max_kelly_bet] x capital and
\* within the single-position, group and total-exposure headrooms
NoClampBinds ==
    /\ KellyStage
    /\ RLe(<<limits.min_kelly_bet * current_capital, 100>>, KellyAmount)
    /\ RLe(KellyAmount, <<limits.max_kelly_bet * current_capital, 100>>)
    /\ RLe(KellyAmount, <<limits.max_single_position_pct * current_capital, 100>>)
    /\ result.args.market_group # None =>
          RLe(RAdd(KellyAmount, R(_get_group_exposure(result.args.market_group))),
              <<limits.max_correlated_group_pct * current_capital, 100>>)
    /\ RLe(RAdd(KellyAmount, R(_get_total_exposure)),
           <<limits.max_total_exposure_pct * current_capital, 100>>)

C16_SizeNeverRaised ==
    (result.op = "calculate_position_size" /\ result.contracts >= 1) =>
        /\ RLe(result.args.size, KellyAmount)
        /\ RLt(R(0), FullKelly)
        /\ result.args.win_probability > result.args.price_cents

(***************************************************************************)
(* SpecAged: a manager that has been running for some days.  It has        *)
(* settled WarmTrades positions (one loss of 80% of its cost followed by   *)
(* break-even trades, or break-even trades only) and recorded              *)
(* AgedSlippage slippage samples without a halt; a can_trade() on the      *)
(* current day has reset the daily counters.                               *)
(***************************************************************************)
MaxAgedCloses == 2
MaxAgedSlips == 1

\* break-even trades only; an old gain of 40 on a cost of 50 followed by
\* break-even trades
AgedWindows ==
    {[i \in 1..EdgeWindowMin |-> R(0)],
     [i \in 1..EdgeWindowMin |-> IF i = 1 THEN <<4, 5>> ELSE R(0)]}
\* seven samples within max_slippage_bps, then two above it
AgedSlippage == <<10, 10, 10, 10, 10, 10, 10, 80, 80>>

InitAged ==
    /\ realized_edge_window \in AgedWindows
    /\ recent_slippage = AgedSlippage
    /\ limits = SmallLimits
    /\ current_capital = SmallCapital
    /\ trading_state = ACTIVE
    /\ kill_switch_reason = None
    /\ positions = <<>>
    /\ market_groups = <<>>
    /\ daily_pnl = 0
    /\ daily_trades = 0
    /\ daily_reset_time = Midnight(StartHour)
    /\ consecutive_losses = 0
    /\ last_loss_time = NoTime
    /\ recent_errors = <<>>
    /\ recent_fills = <<>>
    /\ now = StartHour
    /\ result = Void
    /\ FeeIdle
    /\ BTIdle

AgedTick == now < MaxHour /\ Tick(1) /\ UNCHANGED <<feevars, btvars>>
AgedCanTrade == CanTrade /\ UNCHANGED <<feevars, btvars>>
AgedAdd ==
    /\ \E t \in Tickers \ DOMAIN positions : AddPosition(t, "yes", 1, 50, None)
    /\ UNCHANGED <<feevars, btvars>>
AgedClose ==
    /\ Len(realized_edge_window) < EdgeWindowMin + MaxAgedCloses
    /\ \E t \in DOMAIN positions, pnl \in PnlSet : ClosePosition(t, pnl)
    /\ UNCHANGED <<feevars, btvars>>
AgedSlip ==
    /\ Len(recent_slippage) < Len(AgedSlippage) + MaxAgedSlips
    /\ \E b \in SlippageSet : RecordSlippage(b)
    /\ UNCHANGED <<feevars, btvars>>
AgedResume == ManualResume /\ UNCHANGED <<feevars, btvars>>

NextAged ==
    \/ AgedTick
    \/ AgedCanTrade
    \/ AgedAdd
    \/ AgedClose
    \/ AgedSlip
    \/ AgedResume

SpecAged == InitAged /\ [][NextAged]_vars

\* close_position has closed an open position in this step
ClosedOne ==
    /\ positions' # positions
    /\ Len(realized_edge_window') = Len(realized_edge_window) + 1

\* the ROIs of the 20 most recently closed trades sum to less than 0
LastTwentyNegative(window) ==
    /\ Len(window) >= EdgeWindowMin
    /\ RLt(RSumSeq(SubSeq(window, Len(window) - EdgeWindowMin + 1, Len(window))),
           R(0))

\* C17 as stated: a close_position from a state other than THROTTLED leaves
\* the state THROTTLED exactly when at least 20 trades have been closed and the
\* mean ROI of the 20 most recent ones is negative.
C17_Original ==
    [][(ClosedOne /\ trading_state # THROTTLED) =>
          (trading_state' = THROTTLED
              <=> LastTwentyNegative(realized_edge_window'))]_vars

\* the ROIs the window holds sum to less than 0: every ROI of the window
\* counts, the ones older than the last 20 included
WholeWindowNegative(window) ==
    LET Sum[i \in 0..Len(window)] ==
            IF i = 0 THEN R(0) ELSE RAdd(Sum[i - 1], window[i])
    IN  Len(window) >= EdgeWindowMin /\ RLt(Sum[Len(window)], R(0))

\* C17: a close_position from a state other than THROTTLED leaves the state
\* THROTTLED exactly when the window, which keeps the ROIs of the up to 50 most
\* recently closed trades, holds at least 20 ROIs and the mean of all of them
\* is negative.
C17_ThrottleOnWholeWindow ==
    [][(ClosedOne /\ trading_state # THROTTLED) =>
          /\ Len(realized_edge_window') <= EdgeWindowMaxLen
          /\ SubSeq(realized_edge_window', 1, Len(realized_edge_window)) =
                 realized_edge_window
          /\ (trading_state' = THROTTLED
                 <=> WholeWindowNegative(realized_edge_window'))]_vars

\* a trade was closed at a loss, the last 20 ROIs are negative on average, and
\* the state is not THROTTLED because of the gain of the 21st most recent trade
C17_Witness ==
    /\ Len(realized_edge_window) = EdgeWindowMin + 1
    /\ realized_edge_window[1] = <<4, 5>>
    /\ LastTwentyNegative(realized_edge_window)
    /\ ~WholeWindowNegative(realized_edge_window)
    /\ trading_state = ACTIVE

\* record_slippage has recorded a sample in this step
SlippageRecorded == Len(recent_slippage') = Len(recent_slippage) + 1

\* at least 30% of the samples exceed max_slippage_bps
HighShare(samples) ==
    Cardinality({i \in 1..Len(samples) : samples[i] > limits.max_slippage_bps}) * 100
        >= Len(samples) * SlippagePatternPct

\* C19: a record_slippage in a state that is not HALTED halts with reason
\* SLIPPAGE_EXCESSIVE exactly when, with the new sample, at least 30% of the
\* samples in the window exceed max_slippage_bps, and otherwise leaves
\* trading_state unchanged.
C19_SlippageShare ==
    [][(SlippageRecorded /\ trading_state # HALTED) =>
          IF HighShare(recent_slippage')
          THEN trading_state' = HALTED /\ kill_switch_reason' = SLIPPAGE_EXCESSIVE
          ELSE trading_state' = trading_state]_vars

(***************************************************************************)
(* A manager that has just been throttled: 19 break-even trades on earlier *)
(* days, then today, at StartHour, a position of 1 contract at 50 cents    *)
(* was opened and closed with pnl = -40 (close_position, lines 383-404).   *)
(* Every operation except manual_resume() may follow.                      *)
(***************************************************************************)
MaxThrottledCloses == 3

InitThrottled ==
    /\ realized_edge_window =
           [i \in 1..EdgeWindowMin |-> IF i = EdgeWindowMin THEN <<-4, 5>> ELSE R(0)]
    /\ limits = SmallLimits
    /\ current_capital = SmallCapital - 40
    /\ trading_state = THROTTLED
    /\ kill_switch_reason = None
    /\ positions = <<>>
    /\ market_groups = <<>>
    /\ daily_pnl = -40
    /\ daily_trades = 1
    /\ daily_reset_time = Midnight(StartHour)
    /\ consecutive_losses = 1
    /\ last_loss_time = StartHour
    /\ recent_slippage = <<>>
    /\ recent_errors = <<>>
    /\ recent_fills = <<>>
    /\ now = StartHour
    /\ result = Void
    /\ FeeIdle
    /\ BTIdle

ThrottledClose ==
    /\ Len(realized_edge_window) < EdgeWindowMin + MaxThrottledCloses
    /\ \E t \in Tickers, pnl \in PnlSet : ClosePosition(t, pnl)
    /\ UNCHANGED <<feevars, btvars>>

NextThrottled ==
    \/ TickStep
    \/ CanTradeStep
    \/ SizeStep
    \/ AddStep
    \/ ThrottledClose
    \/ SlippageStep
    \/ ErrorStep
    \/ ScanStep

SpecThrottled == InitThrottled /\ [][NextThrottled]_vars

DailyLimitsClear ==
    /\ ~DailyDollarBreach(daily_pnl')
    /\ ~DailyPctBreach(daily_pnl')
    /\ daily_trades' < limits.max_daily_trades

\* C20: a can_trade() in state ACTIVE with no daily limit reached halts with
\* reason ERROR_BURST if and only if at least max_error_rate_per_hour errors
\* were recorded within the trailing hour.
C20_ErrorBurst ==
    [][(CanTrade /\ trading_state = ACTIVE /\ DailyLimitsClear) =>
          ((trading_state' = HALTED /\ kill_switch_reason' = ERROR_BURST)
              <=> ErrorsInLastHour >= limits.max_error_rate_per_hour)]_vars

\* no headroom is left under the correlation-group cap of the given group
GroupHeadroomGone(market_group) ==
    /\ market_group # None
    /\ RLe(RSub(RMul(R(current_capital), Pct(limits.max_correlated_group_pct)),
                R(_get_group_exposure(market_group))),
           R(0))

\* no headroom is left under the total-exposure cap
TotalHeadroomGone ==
    RLe(RSub(RMul(R(current_capital), Pct(limits.max_total_exposure_pct)),
             R(_get_total_exposure)),
        R(0))

\* C21: a calculate_position_size call that returns reports the earliest
\* failing check, in the order gate, minimum edge, price, group headroom,
\* total-exposure headroom, at least one contract, with 0 contracts; it
\* returns 1 or more contracts only together with the reason "OK".
C21_OrderedChecks ==
    [][(SizeCall /\ ~result'.raised) =>
          LET a == result'.args
              g == can_trade
              refused(reason) == result'.contracts = 0 /\ result'.reason = reason
          IN  /\ result'.contracts >= 1 <=> result'.reason = "OK"
              /\ result'.contracts >= 0
              /\ IF ~g.allowed THEN refused(g.reason) /\ g.reason # "OK"
                 ELSE IF a.edge < limits.min_edge_to_trade
                 THEN refused("edge_too_small")
                 ELSE IF a.price_cents <= 0 \/ a.price_cents >= 100
                 THEN refused("invalid_price")
                 ELSE IF GroupHeadroomGone(a.market_group)
                 THEN refused("group_limit")
                 ELSE IF TotalHeadroomGone
                 THEN refused("total_limit")
                 ELSE refused("too_small") \/ result'.reason = "OK"]_vars

\* a call whose edge and whose price both fail was refused for its edge
C21_Witness ==
    /\ result.op = "calculate_position_size"
    /\ result.args.edge < limits.min_edge_to_trade
    /\ result.args.price_cents >= 100
    /\ result.contracts = 0
    /\ result.reason = "edge_too_small"

\* C22: when add_position records a further fill for a ticker that already has
\* an open position, the position's contracts are the old contracts plus the new
\* ones and its entry price is the contract-weighted mean of the old entry
\* price and the new price.
C22_AddAveragesIn ==
    [][SizedAdd =>
          \A t \in DOMAIN positions :
              \/ positions'[t] = positions[t]
              \/ LET old == positions[t]
                     new == positions'[t]
                 IN  /\ new.contracts = old.contracts + result.contracts
                     /\ new.entry_price_cents * new.contracts =
                            old.entry_price_cents * old.contracts
                            + result.args.price_cents * result.contracts]_vars

\* the cost of the order the last submit_order call was about
LastCost == RMul(bt_result.fill_price, R(bt_result.contracts))

\* every order accepted so far is a BUY
BuysOnly == \A i \in 1..Len(orders) : orders[i].action = BUY

\* C23: a submit_order for a BUY that the book can fill and whose cost exceeds
\* the capital returns None and leaves capital, positions and orders as they
\* were; under the default fee schedule, after BUY orders and resolve_market
\* calls only, capital is not negative.
C23_UnaffordableBuyRejected ==
    [][/\ (/\ SubmitStep
           /\ bt_result'.action = BUY
           /\ bt_result'.can_fill
           /\ RLt(bt_capital,
                  RMul(bt_result'.fill_price, R(bt_result'.contracts))))
          => /\ bt_result'.returned = None
             /\ UNCHANGED <<bt_capital, bt_positions, orders>>
       /\ (fee_schedule' = FeeSchedule /\ BuysOnly')
          => RLe(R(0), bt_capital')]_vars

\* a BUY the book could fill has been refused because it costs more than the
\* capital left
C23_Witness ==
    /\ Filled
    /\ bt_result.action = BUY
    /\ bt_result.returned = None
    /\ RLt(bt_capital, LastCost)
    /\ fee_schedule = FeeSchedule

\* C24: can_trade() and calculate_position_size() return a result, whatever
\* the capital is; they never raise.
C24_NeverRaises == result.op \in GateOps => ~result.raised

\* C25: a resolve_market that finds an open position appends one trade record
\* and one equity point, counts one trade and deletes the position; one that
\* finds none returns None and changes nothing; submit_order settles nothing;
\* so len(trades) = len(equity_curve) = total_trades, and winning_trades is at
\* most total_trades.
C25_SettlementBookkeeping ==
    [][/\ ResolveStep =>
            IF bt_result'.ticker \in DOMAIN bt_positions
            THEN /\ bt_result'.returned = "trade"
                 /\ Len(trades') = Len(trades) + 1
                 /\ bt_result'.ticker \notin DOMAIN bt_positions'
            ELSE /\ bt_result'.returned = None
                 /\ UNCHANGED <<bt_capital, bt_positions, orders, trades,
                                equity_curve, total_trades, winning_trades,
                                total_fees>>
       /\ SubmitStep => UNCHANGED <<trades, equity_curve, total_trades,
                                    winning_trades>>
       /\ Len(trades') = Len(equity_curve')
       /\ Len(trades') = total_trades'
       /\ winning_trades' <= total_trades']_vars

\* a position was settled, and a second resolve_market of the same ticker
\* found nothing
C25_Witness ==
    /\ bt_result.op = "resolve_market"
    /\ bt_result.returned = None
    /\ total_trades = 1
    /\ Len(trades) = 1
    /\ bt_positions = <<>>

\* the sum of net_pnl over the trade records
SettledNetPnl ==
    LET Sum[i \in 0..Len(trades)] ==
            IF i = 0 THEN R(0) ELSE RAdd(Sum[i - 1], trades[i].net_pnl)
    IN  Sum[Len(trades)]

\* C26: whenever no position is open, capital is the initial capital plus the
\* net P&L of the settled trades.
C26_CashConserved ==
    bt_positions = <<>> => bt_capital = RAdd(R(BtCapital), SettledNetPnl)

\* every position closed so far was closed on the current day: the manager
\* was constructed today, or the only position closed so far was closed at a
\* loss (whose time last_loss_time holds) today
AllClosedToday ==
    \/ Date(now) = Date(StartHour)
    \/ realized_edge_window = <<>>
    \/ /\ Len(realized_edge_window) = 1
       /\ last_loss_time # NoTime
       /\ Date(last_loss_time) = Date(now)

\* C27: when can_trade() evaluates the daily limits, daily_pnl is the sum of
\* the pnl of the positions closed during the current day; here, where every
\* position closed so far was closed today, that sum is the change of the
\* capital since construction.
C27_DailyPnlIsTodays ==
    [][(CanTradeStep /\ AllClosedToday) =>
          daily_pnl' = current_capital - SmallCapital]_vars

\* C28: a ticker is a member of a market group exactly when it has an open
\* position tagged with that group.
C28_GroupsMatchPositions ==
    /\ \A g \in DOMAIN market_groups :
          \A t \in market_groups[g] :
              t \in DOMAIN positions /\ positions[t].market_group = g
    /\ \A t \in DOMAIN positions :
          positions[t].market_group # None =>
              /\ positions[t].market_group \in DOMAIN market_groups
              /\ t \in market_groups[positions[t].market_group]

\* C29: kill_switch_reason is set exactly when trading_state is HALTED, and
\* while the state stays HALTED the reason stays the one of the transition into
\* HALTED.
C29_ReasonIffHalted ==
    [][/\ kill_switch_reason' # None <=> trading_state' = HALTED
       /\ (trading_state = HALTED /\ trading_state' = HALTED)
             => kill_switch_reason' = kill_switch_reason]_vars

(***************************************************************************)
(* Spec: halts and manual resumes.  The manager has recorded four errors   *)
(* at StartHour (record_error, lines 459-461) and nothing else, so that a  *)
(* fifth error reaches the error-burst breaker; one configuration allows a *)
(* single trade per day, so that the daily trade limit is within reach.    *)
(***************************************************************************)
MaxResumeEvents == 3

RecordedErrors == [i \in 1..(ErrorBurstMinSamples - 1) |-> StartHour]
ResumeLimits == {SmallLimits, [SmallLimits EXCEPT !.max_daily_trades = 1]}

InitResume ==
    /\ limits \in ResumeLimits
    /\ recent_errors = RecordedErrors
    /\ current_capital = SmallCapital
    /\ trading_state = ACTIVE
    /\ kill_switch_reason = None
    /\ positions = <<>>
    /\ market_groups = <<>>
    /\ daily_pnl = 0
    /\ daily_trades = 0
    /\ daily_reset_time = Midnight(StartHour)
    /\ consecutive_losses = 0
    /\ last_loss_time = NoTime
    /\ recent_slippage = <<>>
    /\ recent_fills = <<>>
    /\ realized_edge_window = <<>>
    /\ now = StartHour
    /\ result = Void
    /\ FeeIdle
    /\ BTIdle

\* an event may still be recorded
ResumeEventLeft == Events < Len(RecordedErrors) + MaxResumeEvents

ResumeClose ==
    /\ ResumeEventLeft
    /\ \E t \in DOMAIN positions, pnl \in PnlSet : ClosePosition(t, pnl)
    /\ UNCHANGED <<feevars, btvars>>
ResumeError == ResumeEventLeft /\ RecordError /\ UNCHANGED <<feevars, btvars>>
ResumeScan ==
    /\ ResumeEventLeft
    /\ RecordScanResult(FALSE)
    /\ UNCHANGED <<feevars, btvars>>

\* manual_resume() is called on a halted manager
ResumeHalted ==
    /\ trading_state = HALTED
    /\ ManualResume
    /\ UNCHANGED <<feevars, btvars>>

NextResume ==
    \/ TickStep
    \/ CanTradeStep
    \/ AddStep
    \/ ResumeClose
    \/ ResumeError
    \/ ResumeScan
    \/ ResumeHalted

SpecResume == InitResume /\ [][NextResume]_vars

\* manual_resume() touches trading_state, kill_switch_reason and
\* consecutive_losses and nothing else
ResumeFrame ==
    /\ trading_state' = ACTIVE
    /\ kill_switch_reason' = None
    /\ consecutive_losses' = 0
    /\ UNCHANGED <<limits, current_capital, positions, market_groups, daily_pnl,
                   daily_trades, daily_reset_time, last_loss_time,
                   recent_slippage, recent_errors, recent_fills,
                   realized_edge_window, now>>

\* the condition behind the given kill-switch reason holds at this moment
StillHolds(reason) ==
    LET dp == IF ResetDue THEN 0 ELSE daily_pnl
    IN  CASE reason = DAILY_LOSS_LIMIT -> DailyDollarBreach(dp) \/ DailyPctBreach(dp)
          [] reason = ERROR_BURST ->
                 ErrorsInLastHour >= limits.max_error_rate_per_hour
          [] reason = NO_FILLS -> _check_no_fills
          [] OTHER -> FALSE

\* C30 as stated: manual_resume() changes trading_state, kill_switch_reason
\* and consecutive_losses only, and if the condition that caused the halt still
\* holds, a can_trade() called right after it returns False and halts again
\* with the same reason.
C30_Original ==
    [][ManualResume =>
          /\ ResumeFrame
          /\ (trading_state = HALTED /\ StillHolds(kill_switch_reason)) =>
                LET g == can_trade'
                IN  /\ ~g.allowed
                    /\ g.trading_state = HALTED
                    /\ g.kill_switch_reason = kill_switch_reason]_vars

\* C30: manual_resume() changes trading_state, kill_switch_reason and
\* consecutive_losses only, and if the condition that caused the halt still
\* holds, a can_trade() called right after it returns False (or raises); it
\* halts again with the reason of the first condition that holds in the order
\* daily loss, error burst (which can_trade sees only once 5 errors are
\* recorded), no fills, except that a reached daily trade limit (or a raise)
\* ends the call before the error-burst and no-fill checks and leaves the state
\* ACTIVE.
C30_ResumeThenRecheck ==
    [][ManualResume =>
          /\ ResumeFrame
          /\ (trading_state = HALTED /\ StillHolds(kill_switch_reason)) =>
                LET g == can_trade'
                    dt == IF ResetDue THEN 0 ELSE daily_trades
                    halted(reason) == /\ g.trading_state = HALTED
                                      /\ g.kill_switch_reason = reason
                    active == /\ g.trading_state = ACTIVE
                              /\ g.kill_switch_reason = None
                IN  /\ ~g.allowed
                    /\ IF g.raised THEN active
                       ELSE IF StillHolds(DAILY_LOSS_LIMIT)
                       THEN halted(DAILY_LOSS_LIMIT)
                       ELSE IF dt >= limits.max_daily_trades THEN active
                       ELSE IF _check_error_burst THEN halted(ERROR_BURST)
                       ELSE halted(NO_FILLS)]_vars

\* a manager halted for no fills was resumed after its only trade, a loss
\* within the daily limits (the streak is 0 again), and the can_trade() that
\* followed has halted it again for no fills
C30_Witness ==
    /\ Len(realized_edge_window) = 1
    /\ current_capital < SmallCapital
    /\ consecutive_losses = 0
    /\ recent_errors = RecordedErrors
    /\ result.op = "can_trade"
    /\ ~result.allowed
    /\ trading_state = HALTED
    /\ kill_switch_reason = NO_FILLS

====
